---- MODULE Spec2Model ----
(***************************************************************************)
(* Model of the stream gateway: StreamManager (services/streamManager.js), *)
(* its replay route (routes/stream.js) and the events Node delivers to     *)
(* their handlers.  One action per handler; every handler runs to          *)
(* completion (single-threaded event loop).                                *)
(***************************************************************************)
EXTENDS Integers, Sequences, FiniteSets, TLC

\* ------------------------------------------------------------------ bounds
MaxAttempts == 2      \* creation attempts (startLiveStream/startReplayStream calls)
ExtraSinks  == 1      \* client sinks beyond the one response object per attempt
MaxChunks   == 2      \* upstream body chunks delivered per attempt
MaxLiveChunks == 3    \* body chunks of a live stream
MaxFeeds    == 5      \* body chunks of the replay stream whose demultiplexing is explored
maxStreams  == 1      \* this.maxStreams: the configured session limit (server.js passes 100)

\* ------------------------------------------------------- program constants
FF == 255
D8 == 216
D9 == 217

Attempts == 1..MaxAttempts
Sinks    == 1..(MaxAttempts + ExtraSinks)
Ids      == Attempts          \* a stream id is named by the first attempt that computed it

\* Body chunks a device may send.  Frame is one complete JPEG (SOI..EOI).
Frame      == <<FF, D8, FF, D9>>
ReplayMenu == { Frame, <<FF, D8>>, <<FF, D9>> }
LiveMenu   == { <<1>>, <<2>> }
ErrMenu    == { <<195>>, <<169>> }   \* the two bytes of U+00E9, one per chunk

\* The runs explored: one request against a device and clients that may fail in every way and
\* a body cut anywhere, or MaxAttempts concurrent requests against devices that answer 200,
\* send whole frames and end normally.
Profiles == { [attempts |-> 1, faults |-> TRUE],
              [attempts |-> MaxAttempts, faults |-> FALSE] }

VARIABLES
  att,          \* per attempt: the closure state of _createLiveStream/_createReplayStream
                \* and the streamInstance object it builds
  sinks,        \* per client sink (a writable response): flags, installed observers, bytes written
  streams,      \* this.streams: id -> the attempt whose streamInstance is registered, 0 if none
  totalStreamsCreated,
  totalStreamsFailed,
  lastStart,    \* the most recent attempt started (ids of same-instant calls coincide)
  crashed,      \* an exception escaped a timer callback (uncaught: the process is gone)
  env,          \* what the surroundings do in this run: how many requests arrive, whether
                \* devices and clients misbehave (fixed at the start)
  fetch,        \* the closure state of one netVuHttpGet call, its timers and the clock
  pool          \* the closure state of one runWithConcurrency call

vars == <<att, sinks, streams, totalStreamsCreated, totalStreamsFailed, lastStart, crashed, env, fetch, pool>>

InitAtt ==
  [ kind |-> "none", sid |-> 0,
    conn |-> "none",              \* none | open (request sent) | err (non-200 response) | ok (200 response)
    reqDestroyed |-> FALSE, resDestroyed |-> FALSE, ended |-> FALSE,
    reqErrored |-> FALSE,
    isResolved |-> FALSE,
    promise |-> "none",           \* none | pending | resolved | rejected
    resolves |-> 0, rejects |-> 0, reason |-> "",
    cont |-> "none",              \* the awaiting caller: none | pending | done
    firstDataReceived |-> FALSE,
    watchdog |-> "unset",         \* unset | armed | cleared | fired
    firstTimer |-> "unset",       \* unset | armed | fired
    clients |-> {}, bytes |-> 0, frames |-> 0, statClients |-> 0,
    buffer |-> <<>>, bufReleased |-> FALSE,
    received |-> <<>>,            \* every byte the replay data handler has been given
    extracted |-> <<>>,           \* every `frame` the demux loop has sliced out, in order
    errorData |-> <<>>,
    started |-> 0, stopped |-> 0, errors |-> 0,   \* notifications emitted for this instance
    stopStats |-> [bytes |-> 0, frames |-> 0, clients |-> 0],
    nchunks |-> 0 ]

InitSink ==
  [ destroyed |-> FALSE, writableEnded |-> FALSE, closeEmitted |-> FALSE, errored |-> FALSE,
    failing |-> FALSE,            \* write() on this sink throws
    obs |-> <<>>,                 \* instances whose close/error observers are installed, in order
    written |-> <<>> ]

Init ==
  /\ att = [a \in Attempts |-> InitAtt]
  /\ sinks = [s \in Sinks |-> InitSink]
  /\ streams = [i \in Ids |-> 0]
  /\ totalStreamsCreated = 0
  /\ totalStreamsFailed = 0
  /\ lastStart = 0
  /\ crashed = FALSE
  /\ env \in Profiles
  /\ fetch = 0          \* no netVuHttpGet call
  /\ pool = 0           \* no runWithConcurrency call

\* ----------------------------------------------------------------- helpers
\* buf.toString('utf8') for one- and two-byte sequences: a byte that is not part of a
\* well-formed sequence decodes to U+FFFD
RECURSIVE toString(_)
toString(b) ==
  IF b = <<>> THEN <<>>
  ELSE IF b[1] < 128 THEN <<b[1]>> \o toString(Tail(b))
  ELSE IF b[1] >= 194 /\ b[1] <= 223 /\ Len(b) >= 2 /\ b[2] >= 128 /\ b[2] <= 191
       THEN << (b[1] - 192) * 64 + (b[2] - 128) >> \o toString(SubSeq(b, 3, Len(b)))
       ELSE << 65533 >> \o toString(Tail(b))

Registered(a) == att[a].sid # 0 /\ streams[att[a].sid] = a
Size(m) == Cardinality({i \in Ids : m[i] # 0})          \* this.streams.size

\* resolve()/reject() of the attempt's promise: only the first call settles it.
Resolve(r) ==
  [r EXCEPT !.resolves = @ + 1,
            !.promise = IF @ = "pending" THEN "resolved" ELSE @,
            !.cont = IF r.promise = "pending" THEN "pending" ELSE @]
Reject(r, why) ==
  [r EXCEPT !.rejects = @ + 1,
            !.promise = IF @ = "pending" THEN "rejected" ELSE @,
            !.reason = IF r.promise = "pending" THEN why ELSE @,
            !.cont = IF r.promise = "pending" THEN "pending" ELSE @]

\* The upstream socket can still deliver body events to the response handlers.
Flowing(r) == r.conn \in {"ok", "err"} /\ ~r.reqDestroyed /\ ~r.resDestroyed /\ ~r.ended
\* The upstream socket is open (a device connection is held).
ConnOpen(r) == r.conn # "none" /\ ~r.reqDestroyed /\ ~r.ended

Writable(k) == ~k.destroyed /\ ~k.writableEnded

\* `${kind}_${deviceIp}_${cam}[_${timestamp}]_${Date.now()}`: two calls of the same kind for
\* the same device, camera and timestamp within one millisecond compute the same id.
StreamId(a, k, same) ==
  IF same /\ lastStart # 0 /\ att[lastStart].kind = k THEN att[lastStart].sid ELSE a

\* A continuation of a settled promise is a microtask: it runs before the next timer, socket
\* or API event.  Only further body events of the same response (delivered in the same
\* read) can come between the settlement and the continuation.
Idle == ~crashed /\ \A b \in Attempts : att[b].cont # "pending"
SameRead(a) == ~crashed /\ \A b \in Attempts \ {a} : att[b].cont # "pending"

\* ------------------------------------------------- startLiveStream / startReplayStream
\* bug variant: the gate lets one session too many through
AtCapacity_OffByOne == Size(streams) > maxStreams

AtCapacity == Size(streams) >= maxStreams

StartStream(a, k, same, bad) ==
  /\ Idle
  /\ a = lastStart + 1 /\ a <= env.attempts
  /\ bad => env.faults
  /\ att[a].kind = "none"
  /\ lastStart' = a
  /\ LET id == StreamId(a, k, same)
         r0 == [att[a] EXCEPT !.kind = k, !.sid = id, !.promise = "pending"]
     IN IF AtCapacity
        THEN /\ att' = [att EXCEPT ![a] = Reject(r0, "Maximum streams limit reached")]
             /\ UNCHANGED totalStreamsFailed
        ELSE IF bad
        THEN \* transport.request/get throws: the catch block of the promise executor
             /\ att' = [att EXCEPT ![a] =
                          Reject([r0 EXCEPT !.watchdog = IF k = "replay" THEN "armed" ELSE @],
                                 "create failed")]
             /\ totalStreamsFailed' = totalStreamsFailed + 1
        ELSE /\ att' = [att EXCEPT ![a] =
                          [r0 EXCEPT !.conn = "open",
                                     !.watchdog = IF k = "replay" THEN "armed" ELSE @]]
             /\ UNCHANGED totalStreamsFailed
  /\ UNCHANGED <<sinks, streams, totalStreamsCreated, crashed, env, fetch, pool>>

startLiveStream(a, same, bad) == StartStream(a, "live", same, bad)
startReplayStream(a, same, bad) == StartStream(a, "replay", same, bad)


\* ------------------------------------------------------------------ stopStream
\* The registry state a handler works on, passed through the calls it makes.
World == [att |-> att, sinks |-> sinks, streams |-> streams]

\* stream.clients.forEach(client => { if (!client.destroyed) client.end() })
EndClients(ks, cl) ==
  [s \in Sinks |-> IF s \in cl /\ ~ks[s].destroyed
                   THEN [ks[s] EXCEPT !.writableEnded = TRUE] ELSE ks[s]]

\* bug variant: the response stream is left open
TearDown_KeepResponse(r) ==
  [r EXCEPT !.reqDestroyed = TRUE,
            !.buffer = <<>>, !.bufReleased = (r.kind = "replay"),
            !.stopped = @ + 1,
            !.stopStats = [bytes |-> r.bytes, frames |-> r.frames, clients |-> r.statClients]]

\* request.destroy(); deviceStream.destroy(); buffer = null; emit("stream-stopped", ...)
TearDown(r) ==
  [r EXCEPT !.reqDestroyed = TRUE, !.resDestroyed = TRUE,
            !.buffer = <<>>, !.bufReleased = (r.kind = "replay"),
            !.stopped = @ + 1,
            !.stopStats = [bytes |-> r.bytes, frames |-> r.frames, clients |-> r.statClients]]

stopStreamReturns(w, id) == w.streams[id] # 0

\* bug variant: the session is torn down but left in the registry
stopStream_NoDelete(w, id) ==
  LET a == w.streams[id] IN
  IF a = 0 THEN w
  ELSE [att |-> [w.att EXCEPT ![a] = TearDown(w.att[a])],
        sinks |-> EndClients(w.sinks, w.att[a].clients),
        streams |-> w.streams]

stopStream(w, id) ==
  LET a == w.streams[id] IN
  IF a = 0 THEN w
  ELSE [att |-> [w.att EXCEPT ![a] = TearDown(w.att[a])],
        sinks |-> EndClients(w.sinks, w.att[a].clients),
        streams |-> [w.streams EXCEPT ![id] = 0]]

\* this.emit("stream-error", ...); this.stopStream(streamId)
handleStreamError(w, a) ==
  stopStream([w EXCEPT !.att[a].errors = @ + 1], w.att[a].sid)

SetWorld(w) ==
  /\ att' = w.att
  /\ sinks' = w.sinks
  /\ streams' = w.streams

\* ------------------------------------------------------------------ fan-out
\* bug variant: the chunk is written twice
LiveWrite_Twice(a, chunk) ==
  << [kind |-> "data", from |-> a, bytes |-> chunk],
     [kind |-> "data", from |-> a, bytes |-> chunk] >>

\* client.write(chunk)
LiveWrite(a, chunk) == << [kind |-> "data", from |-> a, bytes |-> chunk] >>

\* bug variant: Content-Length counts the trailing CRLF as well
FramePart_LengthWithCRLF(a, frame) ==
  << [kind |-> "boundary", from |-> a],
     [kind |-> "ctype", from |-> a],
     [kind |-> "clen", from |-> a, n |-> Len(frame) + 2],
     [kind |-> "blank", from |-> a],
     [kind |-> "data", from |-> a, bytes |-> frame],
     [kind |-> "crlf", from |-> a] >>

\* client.write x6: the multipart part wrapped around one frame
FramePart(a, frame) ==
  << [kind |-> "boundary", from |-> a],
     [kind |-> "ctype", from |-> a],
     [kind |-> "clen", from |-> a, n |-> Len(frame)],
     [kind |-> "blank", from |-> a],
     [kind |-> "data", from |-> a, bytes |-> frame],
     [kind |-> "crlf", from |-> a] >>

RECURSIVE FrameParts(_, _)
FrameParts(a, frames) ==
  IF frames = <<>> THEN <<>>
  ELSE FramePart(a, Head(frames)) \o FrameParts(a, Tail(frames))

\* bug variant: an exception thrown by one sink's write escapes the forEach, so no sink
\* after it (in insertion order, here none at all) is written
FanOut_AbortOnThrow(ks, cl, writes) ==
  [s \in Sinks |-> IF s \in cl /\ Writable(ks[s])
                      /\ \A t \in cl : ~(Writable(ks[t]) /\ ks[t].failing)
                   THEN [ks[s] EXCEPT !.written = @ \o writes] ELSE ks[s]]

\* clients.forEach(client => { try { if (!client.destroyed && !client.writableEnded)
\* client.write(...) } catch (err) { } }): a write that throws is swallowed per client
FanOut(ks, cl, writes) ==
  [s \in Sinks |-> IF s \in cl /\ Writable(ks[s]) /\ ~ks[s].failing
                   THEN [ks[s] EXCEPT !.written = @ \o writes] ELSE ks[s]]

\* ------------------------------------------------------------- _createLiveStream
\* bug variant: the session is put in the registry as soon as a 200 response arrives
LiveOnResponse_RegistersOnHeaders(a, ok) ==
  /\ Idle /\ (~ok => env.faults)
  /\ att[a].kind = "live" /\ att[a].conn = "open" /\ ~att[a].reqDestroyed
  /\ att' = [att EXCEPT ![a] =
               IF ok THEN [@ EXCEPT !.conn = "ok", !.firstTimer = "armed"]
                     ELSE [@ EXCEPT !.conn = "err"]]
  /\ streams' = IF ok THEN [streams EXCEPT ![att[a].sid] = a] ELSE streams
  /\ UNCHANGED <<sinks, totalStreamsCreated, totalStreamsFailed, lastStart, crashed, env, fetch, pool>>

\* The (response) => { ... } callback of transport.request.
LiveOnResponse(a, ok) ==
  /\ Idle /\ (~ok => env.faults)
  /\ att[a].kind = "live" /\ att[a].conn = "open" /\ ~att[a].reqDestroyed
  /\ att' = [att EXCEPT ![a] =
               IF ok THEN [@ EXCEPT !.conn = "ok", !.firstTimer = "armed"]
                     ELSE [@ EXCEPT !.conn = "err"]]
  /\ UNCHANGED <<sinks, streams, totalStreamsCreated, totalStreamsFailed, lastStart, crashed, env, fetch, pool>>

\* non-200: response.on("data"): errorData += chunk.toString()
LiveOnErrorData(a, chunk) ==
  /\ Idle /\ env.faults
  /\ att[a].kind = "live" /\ att[a].conn = "err" /\ Flowing(att[a])
  /\ att[a].nchunks < MaxChunks
  /\ att' = [att EXCEPT ![a].errorData = @ \o toString(chunk),
                          ![a].received = @ \o chunk, ![a].nchunks = @ + 1]
  /\ UNCHANGED <<sinks, streams, totalStreamsCreated, totalStreamsFailed, lastStart, crashed, env, fetch, pool>>

LiveErrorEndGuard(r) == ~r.isResolved

\* non-200: response.on("end") rejects with the status and the collected body
LiveOnErrorEnd(a) ==
  /\ Idle /\ env.faults
  /\ att[a].kind = "live" /\ att[a].conn = "err" /\ Flowing(att[a])
  /\ att' = [att EXCEPT ![a] =
               LET r == [@ EXCEPT !.ended = TRUE] IN
               IF LiveErrorEndGuard(r)
               THEN Reject([r EXCEPT !.isResolved = TRUE], "Device returned status")
               ELSE r]
  /\ UNCHANGED <<sinks, streams, totalStreamsCreated, totalStreamsFailed, lastStart, crashed, env, fetch, pool>>

\* bug variant: the first chunk registers the session without looking at isResolved
LiveRegisterGuard_NoSettledCheck(r) == ~r.firstDataReceived

LiveRegisterGuard(r) == ~r.firstDataReceived /\ ~r.isResolved

\* 200: response.on("data")
LiveOnData(a, chunk) ==
  /\ SameRead(a)
  /\ att[a].kind = "live" /\ att[a].conn = "ok" /\ Flowing(att[a])
  /\ att[a].nchunks < MaxLiveChunks
  /\ LET r   == att[a]
         reg == LiveRegisterGuard(r)
         r1  == [r EXCEPT !.firstDataReceived = TRUE]
         r2  == IF reg THEN Resolve([r1 EXCEPT !.isResolved = TRUE, !.started = @ + 1]) ELSE r1
         r3  == [r2 EXCEPT !.bytes = @ + Len(chunk), !.nchunks = @ + 1]
     IN /\ att' = [att EXCEPT ![a] = r3]
        /\ streams' = IF reg THEN [streams EXCEPT ![r.sid] = a] ELSE streams
        /\ sinks' = FanOut(sinks, r.clients, LiveWrite(a, chunk))
  /\ UNCHANGED <<totalStreamsCreated, totalStreamsFailed, lastStart, crashed, env, fetch, pool>>

\* 200: response.on("end") -> this.stopStream(streamId)
LiveOnEnd(a) ==
  /\ SameRead(a)
  /\ att[a].kind = "live" /\ att[a].conn = "ok" /\ Flowing(att[a])
  /\ SetWorld(stopStream([World EXCEPT !.att[a].ended = TRUE], att[a].sid))
  /\ UNCHANGED <<totalStreamsCreated, totalStreamsFailed, lastStart, crashed, env, fetch, pool>>

\* 200: response.on("error") -> this._handleStreamError(streamId, err)
LiveOnResponseError(a) ==
  /\ SameRead(a) /\ env.faults
  /\ att[a].kind = "live" /\ att[a].conn = "ok"
  /\ ~att[a].resDestroyed /\ ~att[a].ended
  /\ SetWorld(handleStreamError(
        [World EXCEPT !.att[a].resDestroyed = TRUE, !.att[a].reqDestroyed = TRUE], a))
  /\ UNCHANGED <<totalStreamsCreated, totalStreamsFailed, lastStart, crashed, env, fetch, pool>>

\* bug variant: the timer only rejects once data has been seen
LiveTimerGuard_AfterData(r) == r.firstDataReceived /\ ~r.isResolved

LiveTimerGuard(r) == ~r.firstDataReceived /\ ~r.isResolved

\* setTimeout(..., 10000) armed in the 200 response callback; never cleared
LiveFirstDataTimer(a) ==
  /\ Idle /\ env.faults
  /\ att[a].kind = "live" /\ att[a].firstTimer = "armed"
  /\ att' = [att EXCEPT ![a] =
               LET r == [@ EXCEPT !.firstTimer = "fired"] IN
               IF LiveTimerGuard(r)
               THEN Reject([r EXCEPT !.isResolved = TRUE], "Timeout waiting for first data from device")
               ELSE r]
  /\ UNCHANGED <<sinks, streams, totalStreamsCreated, totalStreamsFailed, lastStart, crashed, env, fetch, pool>>

\* A request "error" is delivered while the socket is open, or as "socket hang up" when the
\* request was destroyed before any response arrived.
ReqErrorPossible(r) ==
  /\ r.conn # "none" /\ ~r.reqErrored /\ ~r.ended
  /\ (~r.reqDestroyed \/ r.conn = "open")

LiveReqErrorGuard(r) == ~r.isResolved

\* request.on("error")
LiveOnRequestError(a) ==
  /\ Idle /\ env.faults
  /\ att[a].kind = "live" /\ ReqErrorPossible(att[a])
  /\ att' = [att EXCEPT ![a] =
               LET r == [@ EXCEPT !.reqErrored = TRUE, !.reqDestroyed = TRUE] IN
               IF LiveReqErrorGuard(r)
               THEN Reject([r EXCEPT !.isResolved = TRUE], "request error")
               ELSE r]
  /\ UNCHANGED <<sinks, streams, totalStreamsCreated, totalStreamsFailed, lastStart, crashed, env, fetch, pool>>

\* bug variant: the socket timeout destroys the request and leaves the rejection to others
LiveReqTimeoutGuard_DestroyOnly(r) == FALSE

LiveReqTimeoutGuard(r) == ~r.isResolved

\* request.on("timeout"): the socket was idle for 10 s
LiveOnRequestTimeout(a) ==
  /\ Idle /\ env.faults
  /\ att[a].kind = "live" /\ ConnOpen(att[a])
  /\ att' = [att EXCEPT ![a] =
               LET r == [@ EXCEPT !.reqDestroyed = TRUE] IN
               IF LiveReqTimeoutGuard(r)
               THEN Reject([r EXCEPT !.isResolved = TRUE], "Connection timeout")
               ELSE r]
  /\ UNCHANGED <<sinks, streams, totalStreamsCreated, totalStreamsFailed, lastStart, crashed, env, fetch, pool>>

\* the awaiting startLiveStream: this.totalStreamsCreated++ once the promise has resolved
LiveContinue(a) ==
  /\ ~crashed
  /\ att[a].kind = "live" /\ att[a].cont = "pending"
  /\ att' = [att EXCEPT ![a].cont = "done"]
  /\ totalStreamsCreated' =
       IF att[a].promise = "resolved" THEN totalStreamsCreated + 1 ELSE totalStreamsCreated
  /\ UNCHANGED <<sinks, streams, totalStreamsFailed, lastStart, crashed, env, fetch, pool>>

\* ----------------------------------------------------------- _createReplayStream
\* bug variant: always searches from offset 0
IndexOf_IgnoreFrom(buf, b1, b2, from) ==
  LET hits == {i \in 0..(Len(buf) - 2) : buf[i + 1] = b1 /\ buf[i + 2] = b2}
  IN IF hits = {} THEN -1 ELSE CHOOSE i \in hits : \A j \in hits : i <= j

\* buffer.indexOf(Buffer.from([b1, b2]), from): 0-based offset of the first match at or
\* after `from`, -1 when there is none.
IndexOf(buf, b1, b2, from) ==
  LET hits == {i \in from..(Len(buf) - 2) : buf[i + 1] = b1 /\ buf[i + 2] = b2}
  IN IF hits = {} THEN -1 ELSE CHOOSE i \in hits : \A j \in hits : i <= j

\* bug variant: a buffer in which no start marker is found is thrown away
RECURSIVE ExtractFrames_DropUnstarted(_, _)
ExtractFrames_DropUnstarted(buf, acc) ==
  LET start == IndexOf(buf, FF, D8, 0)
      end   == IndexOf(buf, FF, D9, start + 2)
  IN IF start # -1 /\ end # -1
     THEN ExtractFrames_DropUnstarted(SubSeq(buf, end + 3, Len(buf)),
                                      Append(acc, SubSeq(buf, start + 1, end + 2)))
     ELSE [frames |-> acc, rest |-> IF start = -1 THEN <<>> ELSE buf]

\* The while loop of the data handler: frames sliced off the front of the buffer.
RECURSIVE ExtractFrames(_, _)
ExtractFrames(buf, acc) ==
  LET start == IndexOf(buf, FF, D8, 0)
      end   == IndexOf(buf, FF, D9, start + 2)
  IN IF start # -1 /\ end # -1
     THEN ExtractFrames(SubSeq(buf, end + 3, Len(buf)),
                        Append(acc, SubSeq(buf, start + 1, end + 2)))
     ELSE [frames |-> acc, rest |-> buf]

RECURSIVE SumLen(_)
SumLen(fs) == IF fs = <<>> THEN 0 ELSE Len(Head(fs)) + SumLen(Tail(fs))

WatchdogGuard(r) == ~r.isResolved

\* setTimeout(..., 20000) armed before the request is made
ReplayWatchdog(a) ==
  /\ Idle /\ env.faults
  /\ att[a].kind = "replay" /\ att[a].watchdog = "armed"
  /\ LET r == [att[a] EXCEPT !.watchdog = "fired"] IN
     IF WatchdogGuard(r)
     THEN IF r.conn = "none"
          THEN \* transport.get threw: `request` was never initialised, request.destroy()
               \* raises a ReferenceError inside the timer callback
               /\ att' = [att EXCEPT ![a] = [r EXCEPT !.isResolved = TRUE]]
               /\ crashed' = TRUE
          ELSE /\ att' = [att EXCEPT ![a] =
                            Reject([r EXCEPT !.isResolved = TRUE, !.reqDestroyed = TRUE],
                                   "No recording found: no frames within 20s")]
               /\ UNCHANGED crashed
     ELSE /\ att' = [att EXCEPT ![a] = r]
          /\ UNCHANGED crashed
  /\ UNCHANGED <<sinks, streams, totalStreamsCreated, totalStreamsFailed, lastStart, env, fetch, pool>>

\* The (response) => { ... } callback of transport.get.
ReplayOnResponse(a, ok) ==
  /\ Idle /\ (~ok => env.faults)
  /\ att[a].kind = "replay" /\ att[a].conn = "open" /\ ~att[a].reqDestroyed
  /\ att' = [att EXCEPT ![a].conn = IF ok THEN "ok" ELSE "err"]
  /\ UNCHANGED <<sinks, streams, totalStreamsCreated, totalStreamsFailed, lastStart, crashed, env, fetch, pool>>

ReplayOnErrorData(a, chunk) ==
  /\ Idle /\ env.faults
  /\ att[a].kind = "replay" /\ att[a].conn = "err" /\ Flowing(att[a])
  /\ att[a].nchunks < MaxChunks
  /\ att' = [att EXCEPT ![a].errorData = @ \o toString(chunk),
                          ![a].received = @ \o chunk, ![a].nchunks = @ + 1]
  /\ UNCHANGED <<sinks, streams, totalStreamsCreated, totalStreamsFailed, lastStart, crashed, env, fetch, pool>>

ClearWatchdog(r) == [r EXCEPT !.watchdog = IF @ = "armed" THEN "cleared" ELSE @]

ReplayErrorEndGuard(r) == ~r.isResolved

ReplayOnErrorEnd(a) ==
  /\ Idle /\ env.faults
  /\ att[a].kind = "replay" /\ att[a].conn = "err" /\ Flowing(att[a])
  /\ att' = [att EXCEPT ![a] =
               LET r == ClearWatchdog([@ EXCEPT !.ended = TRUE]) IN
               IF ReplayErrorEndGuard(r)
               THEN Reject([r EXCEPT !.isResolved = TRUE], "Device returned status")
               ELSE r]
  /\ UNCHANGED <<sinks, streams, totalStreamsCreated, totalStreamsFailed, lastStart, crashed, env, fetch, pool>>

ReplayRegisterGuard(r) == ~r.isResolved

\* 200: response.on("data"): accumulate, extract every complete frame, register and resolve
\* on the first one, write each frame to the clients, drop the consumed bytes.
ReplayData(a, chunk) ==
     LET r   == att[a]
         x   == ExtractFrames(r.buffer \o chunk, <<>>)
         reg == x.frames # <<>> /\ ReplayRegisterGuard(r)
         r1  == IF reg
                THEN Resolve(ClearWatchdog([r EXCEPT !.isResolved = TRUE, !.started = @ + 1]))
                ELSE r
         r2  == [r1 EXCEPT !.buffer = x.rest,
                           !.bytes = @ + SumLen(x.frames),
                           !.frames = @ + Len(x.frames),
                           !.received = @ \o chunk,
                           !.extracted = @ \o x.frames,
                           !.nchunks = @ + 1]
     IN /\ att' = [att EXCEPT ![a] = r2]
        /\ streams' = IF reg THEN [streams EXCEPT ![r.sid] = a] ELSE streams
        /\ sinks' = FanOut(sinks, r.clients, FrameParts(a, x.frames))

ReplayOnData(a, chunk) ==
  /\ SameRead(a)
  /\ att[a].kind = "replay" /\ att[a].conn = "ok" /\ Flowing(att[a])
  /\ att[a].nchunks < MaxChunks
  /\ (chunk # Frame => env.faults)
  /\ ReplayData(a, chunk)
  /\ UNCHANGED <<totalStreamsCreated, totalStreamsFailed, lastStart, crashed, env, fetch, pool>>

ReplayEndGuard(r) == ~r.isResolved

\* 200: response.on("end")
ReplayOnEnd(a) ==
  /\ SameRead(a)
  /\ att[a].kind = "replay" /\ att[a].conn = "ok" /\ Flowing(att[a])
  /\ LET w == [World EXCEPT !.att[a].ended = TRUE] IN
     IF ReplayEndGuard(att[a])
     THEN SetWorld([w EXCEPT !.att[a] =
            Reject(ClearWatchdog([@ EXCEPT !.isResolved = TRUE]),
                   "No recording found at the requested timestamp")])
     ELSE SetWorld(stopStream(w, att[a].sid))
  /\ UNCHANGED <<totalStreamsCreated, totalStreamsFailed, lastStart, crashed, env, fetch, pool>>

ReplayResErrorGuard(r) == ~r.isResolved

\* 200: response.on("error")
ReplayOnResponseError(a) ==
  /\ SameRead(a) /\ env.faults
  /\ att[a].kind = "replay" /\ att[a].conn = "ok"
  /\ ~att[a].resDestroyed /\ ~att[a].ended
  /\ LET w == [World EXCEPT !.att[a] =
                 ClearWatchdog([@ EXCEPT !.resDestroyed = TRUE, !.reqDestroyed = TRUE])] IN
     IF ReplayResErrorGuard(att[a])
     THEN SetWorld([w EXCEPT !.att[a] = Reject([@ EXCEPT !.isResolved = TRUE], "response error")])
     ELSE SetWorld(handleStreamError(w, a))
  /\ UNCHANGED <<totalStreamsCreated, totalStreamsFailed, lastStart, crashed, env, fetch, pool>>

ReplayReqErrorGuard(r) == ~r.isResolved

\* request.on("error")
ReplayOnRequestError(a) ==
  /\ Idle /\ env.faults
  /\ att[a].kind = "replay" /\ ReqErrorPossible(att[a])
  /\ att' = [att EXCEPT ![a] =
               LET r == ClearWatchdog([@ EXCEPT !.reqErrored = TRUE, !.reqDestroyed = TRUE]) IN
               IF ReplayReqErrorGuard(r)
               THEN Reject([r EXCEPT !.isResolved = TRUE],
                           \* err.message: the request was destroyed locally before a response
                           IF att[a].reqDestroyed THEN "socket hang up" ELSE "request error")
               ELSE r]
  /\ UNCHANGED <<sinks, streams, totalStreamsCreated, totalStreamsFailed, lastStart, crashed, env, fetch, pool>>

\* request.on("timeout"): request.destroy() only; the watchdog is left to reject
ReplayOnRequestTimeout(a) ==
  /\ Idle /\ env.faults
  /\ att[a].kind = "replay" /\ ConnOpen(att[a])
  /\ att' = [att EXCEPT ![a].reqDestroyed = TRUE]
  /\ UNCHANGED <<sinks, streams, totalStreamsCreated, totalStreamsFailed, lastStart, crashed, env, fetch, pool>>

\* -------------------------------------------------------------------- addClient
InSeq(x, q) == \E i \in 1..Len(q) : q[i] = x

addClientReturns(w, id) == w.streams[id] # 0

\* bug variant: a newly attached sink is first given what is left in the buffer
addClient_WithHistory(w, id, s) ==
  LET a == w.streams[id] IN
  IF a = 0 THEN w
  ELSE [w EXCEPT !.att[a].clients = @ \cup {s},
                 !.att[a].statClients = Cardinality(w.att[a].clients \cup {s}),
                 !.sinks[s].obs = IF InSeq(a, @) THEN @ ELSE Append(@, a),
                 !.sinks[s].written =
                    Append(@, [kind |-> "data", from |-> a, bytes |-> w.att[a].buffer])]

\* bug variant: an unknown id still gets the observers installed, and stats.clients is not
\* refreshed
addClient_Unchecked(w, id, s) ==
  LET a == w.streams[id] IN
  IF a = 0 THEN [w EXCEPT !.sinks[s].obs = IF InSeq(id, @) THEN @ ELSE Append(@, id)]
  ELSE [w EXCEPT !.att[a].clients = @ \cup {s},
                 !.sinks[s].obs = IF InSeq(a, @) THEN @ ELSE Append(@, a)]

\* stream.clients.add(sink); stats.clients = size; sink.on("close", ...); sink.on("error", ...)
addClient(w, id, s) ==
  LET a == w.streams[id] IN
  IF a = 0 THEN w
  ELSE [w EXCEPT !.att[a].clients = @ \cup {s},
                 !.att[a].statClients = Cardinality(w.att[a].clients \cup {s}),
                 !.sinks[s].obs = IF InSeq(a, @) THEN @ ELSE Append(@, a)]

\* bug variant: the close observer removes the sink and never stops the session
closeObserver_NoStop(w, a, s) ==
  [w EXCEPT !.att[a].clients = @ \ {s},
            !.att[a].statClients = Cardinality(w.att[a].clients \ {s})]

\* the "close" observer installed by addClient for instance a
closeObserver(w, a, s) ==
  LET w1 == [w EXCEPT !.att[a].clients = @ \ {s},
                      !.att[a].statClients = Cardinality(w.att[a].clients \ {s})]
  IN IF w1.att[a].clients = {} THEN stopStream(w1, w.att[a].sid) ELSE w1

\* the "error" observer installed by addClient for instance a
errorObserver(w, a, s) ==
  [w EXCEPT !.att[a].clients = @ \ {s},
            !.att[a].statClients = Cardinality(w.att[a].clients \ {s})]

RECURSIVE RunCloseObservers(_, _, _)
RunCloseObservers(w, q, s) ==
  IF q = <<>> THEN w ELSE RunCloseObservers(closeObserver(w, Head(q), s), Tail(q), s)

RECURSIVE RunErrorObservers(_, _, _)
RunErrorObservers(w, q, s) ==
  IF q = <<>> THEN w ELSE RunErrorObservers(errorObserver(w, Head(q), s), Tail(q), s)

\* The response object of attempt a's HTTP request is sink a; the other sinks belong to
\* callers of the registry API.
Requester(a) == a
\* A close matters to the registry once the sink is attached, or while the request that owns
\* it is still waiting for its replay stream.
CanClose(s) ==
  \/ sinks[s].obs # <<>>
  \/ IF s \in Attempts THEN att[s].kind = "replay" /\ att[s].cont # "done" ELSE FALSE

\* A sink's "close" event: the client went away, or the ended response finished.
ClientClose(s) ==
  /\ Idle
  /\ CanClose(s) /\ ~sinks[s].closeEmitted
  /\ SetWorld(RunCloseObservers(
        [World EXCEPT !.sinks[s].destroyed = TRUE, !.sinks[s].closeEmitted = TRUE],
        sinks[s].obs, s))
  /\ UNCHANGED <<totalStreamsCreated, totalStreamsFailed, lastStart, crashed, env, fetch, pool>>

\* From now on write() on this sink throws.
SinkBreaks(s) ==
  /\ Idle /\ env.faults
  /\ Writable(sinks[s]) /\ ~sinks[s].failing
  /\ \E a \in Attempts : s \in att[a].clients /\ Flowing(att[a])   \* a write can still reach it
  /\ sinks' = [sinks EXCEPT ![s].failing = TRUE]
  /\ UNCHANGED <<att, streams, totalStreamsCreated, totalStreamsFailed, lastStart, crashed, env, fetch, pool>>

\* A sink's "error" event.
ClientError(s) ==
  /\ Idle /\ env.faults
  /\ sinks[s].obs # <<>> /\ ~sinks[s].closeEmitted /\ ~sinks[s].errored
  /\ SetWorld(RunErrorObservers(
        [World EXCEPT !.sinks[s].errored = TRUE],
        sinks[s].obs, s))
  /\ UNCHANGED <<totalStreamsCreated, totalStreamsFailed, lastStart, crashed, env, fetch, pool>>

\* GET /stream/replay after `await startReplayStream(...)`: totalStreamsCreated++ and
\* addClient(stream.id, res) when it resolved, res.status(503).json(...) when it threw.
ReplayContinue(a) ==
  /\ ~crashed
  /\ att[a].kind = "replay" /\ att[a].cont = "pending"
  /\ LET w == [World EXCEPT !.att[a].cont = "done"] IN
     IF att[a].promise = "resolved"
     THEN /\ SetWorld(addClient(w, att[a].sid, Requester(a)))
          /\ totalStreamsCreated' = totalStreamsCreated + 1
     ELSE /\ SetWorld([w EXCEPT !.sinks[Requester(a)].writableEnded = TRUE])
          /\ UNCHANGED totalStreamsCreated
  /\ UNCHANGED <<totalStreamsFailed, lastStart, crashed, env, fetch, pool>>

\* addClient called by any other holder of the registry with a sink of its own
AttachClient(id, s) ==
  /\ Idle
  /\ s > env.attempts          \* not the response object of a request made in this run
  /\ ~sinks[s].closeEmitted
  /\ IF streams[id] = 0 THEN TRUE ELSE ~InSeq(streams[id], sinks[s].obs)
  /\ SetWorld(addClient(World, id, s))
  /\ UNCHANGED <<totalStreamsCreated, totalStreamsFailed, lastStart, crashed, env, fetch, pool>>

\* DELETE /stream/:streamId
StopStream(id) ==
  /\ Idle
  /\ SetWorld(stopStream(World, id))
  /\ UNCHANGED <<totalStreamsCreated, totalStreamsFailed, lastStart, crashed, env, fetch, pool>>

\* cleanup(): stopStream for every id registered when it is called
RECURSIVE StopAll(_, _)
StopAll(w, ids) ==
  IF ids = {} THEN w
  ELSE LET id == CHOOSE i \in ids : \A j \in ids : i <= j
       IN StopAll(stopStream(w, id), ids \ {id})

\* bug variant: only the first registered id is stopped
cleanup_FirstOnly(w) ==
  LET ids == {i \in Ids : w.streams[i] # 0}
  IN IF ids = {} THEN w ELSE stopStream(w, CHOOSE i \in ids : \A j \in ids : i <= j)

cleanup(w) == StopAll(w, {i \in Ids : w.streams[i] # 0})

Cleanup ==
  /\ Idle
  /\ SetWorld(cleanup(World))
  /\ UNCHANGED <<totalStreamsCreated, totalStreamsFailed, lastStart, crashed, env, fetch, pool>>

Next ==
  \/ \E a \in Attempts, same \in BOOLEAN, bad \in BOOLEAN : startLiveStream(a, same, bad)
  \/ \E a \in Attempts, same \in BOOLEAN, bad \in BOOLEAN : startReplayStream(a, same, bad)
  \/ \E a \in Attempts, ok \in BOOLEAN : LiveOnResponse(a, ok)
  \/ \E a \in Attempts, c \in ErrMenu : LiveOnErrorData(a, c)
  \/ \E a \in Attempts : LiveOnErrorEnd(a)
  \/ \E a \in Attempts, c \in LiveMenu : LiveOnData(a, c)
  \/ \E a \in Attempts : LiveOnEnd(a)
  \/ \E a \in Attempts : LiveOnResponseError(a)
  \/ \E a \in Attempts : LiveFirstDataTimer(a)
  \/ \E a \in Attempts : LiveOnRequestError(a)
  \/ \E a \in Attempts : LiveOnRequestTimeout(a)
  \/ \E a \in Attempts : LiveContinue(a)
  \/ \E a \in Attempts : ReplayWatchdog(a)
  \/ \E a \in Attempts, ok \in BOOLEAN : ReplayOnResponse(a, ok)
  \/ \E a \in Attempts, c \in ErrMenu : ReplayOnErrorData(a, c)
  \/ \E a \in Attempts : ReplayOnErrorEnd(a)
  \/ \E a \in Attempts, c \in ReplayMenu : ReplayOnData(a, c)
  \/ \E a \in Attempts : ReplayOnEnd(a)
  \/ \E a \in Attempts : ReplayOnResponseError(a)
  \/ \E a \in Attempts : ReplayOnRequestError(a)
  \/ \E a \in Attempts : ReplayOnRequestTimeout(a)
  \/ \E a \in Attempts : ReplayContinue(a)
  \/ \E s \in Sinks : ClientClose(s)
  \/ \E s \in Sinks : ClientError(s)
  \/ \E s \in Sinks : SinkBreaks(s)
  \/ \E id \in Ids, s \in Sinks : AttachClient(id, s)
  \/ \E id \in Ids : StopStream(id)
  \/ Cleanup

Spec == Init /\ [][Next]_vars

\* ------------------------------------------------------- the demultiplexer in isolation
\* One replay request whose device answers 200 and sends any bytes, cut into chunks of one
\* or two bytes anywhere (between the two bytes of a marker included) or a whole frame at once.
Bytes == {FF, D8, D9}
DemuxMenu == { <<x>> : x \in Bytes } \cup { <<x, y>> : x \in Bytes, y \in Bytes } \cup { Frame }

DemuxOnData(a, chunk) ==
  /\ SameRead(a)
  /\ att[a].kind = "replay" /\ att[a].conn = "ok" /\ Flowing(att[a])
  /\ att[a].nchunks < MaxFeeds
  /\ ReplayData(a, chunk)
  /\ UNCHANGED <<totalStreamsCreated, totalStreamsFailed, lastStart, crashed, env, fetch, pool>>

InitDemux == Init /\ env = [attempts |-> 1, faults |-> TRUE]

NextDemux ==
  \/ \E a \in Attempts : startReplayStream(a, FALSE, FALSE)
  \/ \E a \in Attempts : ReplayOnResponse(a, TRUE)
  \/ \E a \in Attempts, c \in DemuxMenu : DemuxOnData(a, c)
  \/ \E a \in Attempts : ReplayContinue(a)

SpecDemux == InitDemux /\ [][NextDemux]_vars

\* =================================================================== claims
\* data writes of instance a found on sink s
Delivered(a, s) ==
  Cardinality({i \in 1..Len(sinks[s].written) :
                 sinks[s].written[i].kind = "data" /\ sinks[s].written[i].from = a})

\* C1: every attempt is settled at most once (never resolved and rejected, never twice
\* either), and an attempt that was rejected has not registered a session nor emitted
\* stream-started, whatever order its completion paths fire in.
C1_SettledOnce ==
  \A a \in Attempts :
    /\ att[a].resolves + att[a].rejects <= 1
    /\ att[a].promise = "rejected" => (att[a].started = 0 /\ ~Registered(a))

\* a live attempt timed out waiting for data and its first chunk arrived afterwards
C1_Witness ==
  \E a \in Attempts :
    /\ att[a].promise = "rejected"
    /\ att[a].reason = "Timeout waiting for first data from device"
    /\ att[a].firstDataReceived

\* C2 (as claimed): the registry never holds more than maxStreams sessions.
C2_WithinCapacity == Size(streams) <= maxStreams

\* C3: a creation call made while the registry holds maxStreams or more sessions is rejected
\* with the capacity error and opens no connection, arms no timer and leaves the registry and
\* both counters as they were.
C3_CapacityReject ==
  [][\A a \in Attempts :
       (att[a].kind = "none" /\ att'[a].kind # "none" /\ Size(streams) >= maxStreams)
       => /\ att'[a].promise = "rejected"
          /\ att'[a].reason = "Maximum streams limit reached"
          /\ att'[a].conn = "none"
          /\ att'[a].watchdog = "unset" /\ att'[a].firstTimer = "unset"
          /\ streams' = streams
          /\ totalStreamsCreated' = totalStreamsCreated
          /\ totalStreamsFailed' = totalStreamsFailed]_vars

\* a creation call was turned away at the capacity gate
C3_Witness ==
  \E a \in Attempts : att[a].reason = "Maximum streams limit reached"

\* C4 (as claimed): the requester's sink, attached once the replay attempt has resolved,
\* has been given every frame extracted for the session, the first one included.
C4_RequesterGetsFirstFrame ==
  \A a \in Attempts :
    (att[a].kind = "replay" /\ Requester(a) \in att[a].clients /\ Writable(sinks[Requester(a)]))
    => Delivered(a, Requester(a)) = att[a].frames

\* C5 (as claimed): once the creating caller has had its turn, no registered session holds
\* an open upstream connection with an empty client set.
C5_NoOrphan ==
  \A a \in Attempts :
    (Registered(a) /\ att[a].cont = "done" /\ att[a].clients = {}) => ~ConnOpen(att[a])

\* C6: the step that processes the close event of the only sink of a registered session
\* removes the sink, removes the session from the registry, destroys its upstream request and
\* response and emits one stream-stopped.
C6_LastCloseStops ==
  [][\A s \in Sinks, a \in Attempts :
       (~sinks[s].closeEmitted /\ sinks'[s].closeEmitted
          /\ Registered(a) /\ att[a].clients = {s})
       => /\ s \notin att'[a].clients
          /\ streams'[att[a].sid] = 0
          /\ att'[a].reqDestroyed /\ att'[a].resDestroyed
          /\ att'[a].stopped = att[a].stopped + 1]_vars

\* the only sink of a session closed on its own and the session was stopped with no clients
C6_Witness ==
  \E s \in Sinks, a \in Attempts :
    /\ InSeq(a, sinks[s].obs) /\ sinks[s].closeEmitted
    /\ ~sinks[s].writableEnded /\ ~sinks[s].errored
    /\ att[a].clients = {} /\ att[a].stopped = 1 /\ att[a].stopStats.clients = 0

\* C7 (as claimed): the step that processes the error event of the only sink of a registered
\* session stops that session.
C7_LastErrorStops ==
  [][\A s \in Sinks, a \in Attempts :
       (~sinks[s].errored /\ sinks'[s].errored
          /\ Registered(a) /\ att[a].clients = {s})
       => streams'[att[a].sid] = 0]_vars

\* C8: stop on a registered id returns true, and the step that deletes a session's registry
\* entry destroys its upstream request and response, ends (does not destroy) each attached
\* sink that is not destroyed, releases the buffer and emits one stream-stopped with the
\* session's final bytes, frames and client count.
C8_StopEffects ==
  /\ [](\A id \in Ids :
          streams[id] # 0
          => LET a == streams[id] IN
             /\ stopStreamReturns(World, id)
             /\ stopStream(World, id).att[a].stopStats =
                  [bytes |-> att[a].bytes, frames |-> att[a].frames,
                   clients |-> Cardinality(att[a].clients)])
  /\ [][\A a \in Attempts :
          (Registered(a) /\ streams'[att[a].sid] = 0)
          => /\ att'[a].reqDestroyed /\ att'[a].resDestroyed
             /\ \A s \in att'[a].clients :
                  /\ sinks'[s].destroyed = sinks[s].destroyed
                  /\ sinks'[s].destroyed \/ sinks'[s].writableEnded
             /\ att'[a].kind = "replay" => (att'[a].bufReleased /\ att'[a].buffer = <<>>)
             /\ att'[a].stopped = att[a].stopped + 1
             /\ att'[a].stopStats.bytes = att'[a].bytes
             /\ att'[a].stopStats.frames = att'[a].frames]_vars

\* a replay session that had extracted a frame was stopped with one writable sink attached
C8_Witness ==
  \E a \in Attempts, s \in Sinks :
    /\ att[a].stopped = 1 /\ att[a].bufReleased /\ att[a].frames >= 1
    /\ s \in att[a].clients /\ sinks[s].writableEnded /\ ~sinks[s].destroyed
    /\ att[a].stopStats.clients = 1

\* C9: stop on an id that is not registered returns false and changes nothing, and no session
\* is ever stopped (stream-stopped emitted) more than once, however many triggers fire.
C9_StopIdempotent ==
  /\ \A id \in Ids :
       streams[id] = 0 => (~stopStreamReturns(World, id) /\ stopStream(World, id) = World)
  /\ \A a \in Attempts : att[a].stopped <= 1

\* a stopped session whose ended sink has since delivered its own close event
C9_Witness ==
  \E a \in Attempts, s \in Sinks :
    /\ att[a].stopped = 1 /\ InSeq(a, sinks[s].obs)
    /\ sinks[s].writableEnded /\ sinks[s].closeEmitted

\* C10: a cleanup step leaves the registry empty, and every session registered before it has
\* its upstream destroyed, its sinks ended and exactly one stream-stopped emitted.
C10_CleanupStopsAll ==
  [][Cleanup =>
       /\ \A id \in Ids : streams'[id] = 0
       /\ \A a \in Attempts :
            Registered(a)
            => /\ att'[a].reqDestroyed /\ att'[a].resDestroyed
               /\ \A s \in att[a].clients : sinks'[s].destroyed \/ sinks'[s].writableEnded
               /\ att'[a].stopped = 1]_vars

\* two sessions stopped with their sinks ended and the registry empty
C10_Witness ==
  /\ \A id \in Ids : streams[id] = 0
  /\ \E a, b \in Attempts :
       /\ a # b /\ att[a].stopped = 1 /\ att[b].stopped = 1
       /\ \E s \in att[a].clients : sinks[s].writableEnded /\ ~sinks[s].closeEmitted
       /\ \E s \in att[b].clients : sinks[s].writableEnded /\ ~sinks[s].closeEmitted

\* C11 (as claimed): a cleanup step leaves no device connection open, the connections of
\* attempts that have not yet seen their first chunk or frame included.
C11_CleanupCancelsPending ==
  [][Cleanup => \A a \in Attempts : ~ConnOpen(att'[a])]_vars

\* the data records instance a has written to sink s, in order
DataFrom(a, s) ==
  LET w == sinks[s].written
      F[i \in 0..Len(w)] ==
        IF i = 0 THEN <<>>
        ELSE IF w[i].kind = "data" /\ w[i].from = a THEN Append(F[i - 1], w[i].bytes)
        ELSE F[i - 1]
  IN F[Len(w)]

\* C12: in the step that delivers a chunk of a live session, that chunk is appended unchanged,
\* once, to the output of every attached sink that is neither destroyed nor ended (and whose
\* write does not throw), and nothing is written to any other sink; so every sink sees the
\* chunks in arrival order and sinks attached together see the same sequence.
C12_LiveFanOut ==
  [][\A a \in Attempts :
       (att[a].kind = "live" /\ att[a].conn = "ok" /\ att'[a].nchunks = att[a].nchunks + 1)
       => \E c \in LiveMenu :
            /\ att'[a].bytes = att[a].bytes + Len(c)
            /\ \A s \in Sinks :
                 sinks'[s].written =
                   IF s \in att[a].clients /\ Writable(sinks[s]) /\ ~sinks[s].failing
                   THEN Append(sinks[s].written, [kind |-> "data", from |-> a, bytes |-> c])
                   ELSE sinks[s].written]_vars

\* two sinks attached to one live session have both received two different chunks, in the
\* same order
C12_Witness ==
  \E a \in Attempts, s, t \in Sinks :
    /\ s # t /\ att[a].kind = "live" /\ {s, t} \subseteq att[a].clients
    /\ DataFrom(a, s) = << <<2>>, <<1>> >>
    /\ DataFrom(a, t) = DataFrom(a, s)

\* C13: in a step that fans a chunk or frame out while the write of an attached sink throws,
\* every other attached writable sink is still written, the throwing sink stays in the client
\* set, the session stays registered and neither stream-error nor stream-stopped is emitted;
\* and a sink only ever leaves a client set in the step of its own close or error event.
C13_WriteFailureSwallowed ==
  [][\A a \in Attempts :
       /\ \A s \in att[a].clients :
            ( /\ att[a].conn = "ok" /\ att'[a].nchunks = att[a].nchunks + 1
              /\ Writable(sinks[s]) /\ sinks[s].failing
              /\ (att[a].kind = "live" \/ att'[a].frames > att[a].frames) )
            => /\ \A t \in att[a].clients :
                    (Writable(sinks[t]) /\ ~sinks[t].failing)
                    => Len(sinks'[t].written) > Len(sinks[t].written)
               /\ s \in att'[a].clients
               /\ streams' = streams
               /\ att'[a].errors = att[a].errors
               /\ att'[a].stopped = att[a].stopped
       /\ \A s \in att[a].clients \ att'[a].clients :
            \/ ~sinks[s].closeEmitted /\ sinks'[s].closeEmitted
            \/ ~sinks[s].errored /\ sinks'[s].errored]_vars

\* a live session still registered after two chunks were fanned out, the second while the
\* write of one of its two sinks threw
C13_Witness ==
  \E a \in Attempts, s, t \in Sinks :
    /\ Registered(a) /\ att[a].kind = "live" /\ {s, t} \subseteq att[a].clients
    /\ Writable(sinks[s]) /\ sinks[s].failing /\ ~sinks[t].failing
    /\ Len(DataFrom(a, s)) = 1 /\ Len(DataFrom(a, t)) = 2
    /\ att[a].errors = 0 /\ att[a].stopped = 0

\* C14: the step that attaches a sink to a session writes nothing to it (no history), and
\* every later step of that session that fans a chunk or frame out appends to the sink's
\* output while the sink is attached and writable (and its write does not throw).
C14_NoHistoryThenEverything ==
  [][\A a \in Attempts, s \in Sinks :
       /\ (s \notin att[a].clients /\ s \in att'[a].clients)
          => sinks'[s].written = sinks[s].written
       /\ ( /\ s \in att[a].clients /\ Writable(sinks[s]) /\ ~sinks[s].failing
            /\ att[a].conn = "ok" /\ att'[a].nchunks = att[a].nchunks + 1 )
          => Len(DataFrom(a, s)') = Len(DataFrom(a, s))
               + (IF att[a].kind = "live" THEN 1 ELSE att'[a].frames - att[a].frames)]_vars

\* a sink attached to a live session after its second chunk has received the third and
\* nothing else
C14_Witness ==
  \E a \in Attempts, s, t \in Sinks :
    /\ att[a].kind = "live" /\ att[a].nchunks = 3 /\ {s, t} \subseteq att[a].clients
    /\ Len(DataFrom(a, t)) = 2
    /\ Len(sinks[s].written) = 1 /\ DataFrom(a, s) = << DataFrom(a, t)[2] >>
    /\ ~sinks[s].failing /\ ~sinks[t].failing

\* the output w of a sink is a run of whole items: a chunk of a live session, or the six
\* parts of one replay frame with Content-Length equal to the length of the frame bytes
WellFramed(w) ==
  LET n == Len(w)
      G(i) == /\ i + 5 <= n
              /\ w[i].kind = "boundary" /\ w[i + 1].kind = "ctype" /\ w[i + 2].kind = "clen"
              /\ w[i + 3].kind = "blank" /\ w[i + 4].kind = "data" /\ w[i + 5].kind = "crlf"
              /\ w[i + 2].n = Len(w[i + 4].bytes)
              /\ \A k \in 1..5 : w[i + k].from = w[i].from
      P[j \in 0..n] ==       \* the last j records parse
        IF j = 0 THEN TRUE
        ELSE LET i == n - j + 1 IN
             IF att[w[i].from].kind = "live"
             THEN w[i].kind = "data" /\ P[j - 1]
             ELSE G(i) /\ P[j - 6]
  IN P[n]

\* d occurs in e as a run of consecutive elements starting after the first i
RunAt(d, e, i) == i + Len(d) <= Len(e) /\ \A j \in 1..Len(d) : d[j] = e[i + j]

\* C15: what a sink has been written is a sequence of whole multipart parts ('--frame',
\* Content-Type, Content-Length: N, blank line, frame bytes, CRLF) with N the length of the
\* frame bytes of the same part, never cut or interleaved; the frames a sink received from a
\* replay session are consecutive frames of that session in extraction order, up to the
\* latest one while the sink is attached and writable.
C15_MultipartFraming ==
  /\ \A s \in Sinks : WellFramed(sinks[s].written)
  /\ \A a \in Attempts, s \in Sinks :
       att[a].kind = "replay"
       => /\ \E i \in 0..Len(att[a].extracted) : RunAt(DataFrom(a, s), att[a].extracted, i)
          /\ (s \in att[a].clients /\ Writable(sinks[s]) /\ ~sinks[s].failing)
             => RunAt(DataFrom(a, s), att[a].extracted,
                      Len(att[a].extracted) - Len(DataFrom(a, s)))

\* the requester of a replay has been written two frames of different lengths, in the order
\* they were extracted
C15_Witness ==
  \E a \in Attempts, s \in Sinks :
    /\ att[a].kind = "replay" /\ s \in att[a].clients
    /\ Len(att[a].extracted) = 3
    /\ DataFrom(a, s) = << att[a].extracted[2], att[a].extracted[3] >>
    /\ Len(att[a].extracted[2]) # Len(att[a].extracted[3])
    /\ Len(sinks[s].written) = 12

\* C16: however the device's bytes were cut into chunks, the frames extracted so far, in
\* order, are exactly the frames the demux loop extracts from the same bytes given as one
\* chunk (so none is missing, none emitted twice), and the buffer holds the same remainder.
C16_ChunkIndependent ==
  \A a \in Attempts :
    (att[a].kind = "replay" /\ ~att[a].bufReleased)
    => LET whole == ExtractFrames(att[a].received, <<>>) IN
       /\ att[a].extracted = whole.frames
       /\ att[a].buffer = whole.rest
       /\ att[a].frames = Len(whole.frames)
       /\ att[a].bytes = SumLen(whole.frames)

\* two frames extracted from eight bytes that arrived in five chunks (at least one marker
\* was cut in two)
C16_Witness ==
  \E a \in Attempts :
    /\ att[a].received = Frame \o Frame /\ att[a].nchunks = 5
    /\ att[a].extracted = << Frame, Frame >>

\* b holds a start marker and, at least two bytes after the first start marker begins, an
\* end marker
Complete(b) ==
  \E i \in 1..(Len(b) - 1) :
    /\ b[i] = FF /\ b[i + 1] = D8
    /\ \A h \in 1..(i - 1) : ~(b[h] = FF /\ b[h + 1] = D8)
    /\ \E j \in (i + 2)..(Len(b) - 1) : b[j] = FF /\ b[j + 1] = D9

\* C17: as long as the bytes received hold no end marker after their first start marker, no
\* frame has been extracted and the buffer holds them all, however many chunks came; and a
\* frame has been extracted as soon as they do.
C17_NoEndNoFrame ==
  \A a \in Attempts :
    att[a].kind = "replay"
    => /\ (att[a].frames = 0) <=> ~Complete(att[a].received)
       /\ (att[a].frames = 0 /\ ~att[a].bufReleased) => att[a].buffer = att[a].received
       /\ (att[a].frames = 0) <=> (att[a].started = 0)

\* a start marker arrived first, three more chunks brought no end marker, and the last byte
\* of the fifth chunk completed the end marker: one frame
C17_Witness ==
  \E a \in Attempts :
    LET b == att[a].received IN
    /\ att[a].nchunks = 5 /\ Len(b) >= 6 /\ att[a].frames = 1
    /\ b[1] = FF /\ b[2] = D8
    /\ ~Complete(SubSeq(b, 1, Len(b) - 1))

\* C18 (as claimed): a buffer retained with a start marker in it begins at that start marker.
C18_BufferStartsAtMarker ==
  \A a \in Attempts :
    (att[a].kind = "replay" /\ \E i \in 1..(Len(att[a].buffer) - 1) :
                                 att[a].buffer[i] = FF /\ att[a].buffer[i + 1] = D8)
    => (att[a].buffer[1] = FF /\ att[a].buffer[2] = D8)

\* C19 (as claimed): in the step in which the upstream of a replay attempt ends, an attempt
\* with no frame extracted is rejected with "No recording found at the requested timestamp",
\* registers nothing and emits neither stream-started nor stream-stopped; a session with at
\* least one frame is removed from the registry with one stream-stopped and no stream-error.
C19_ReplayEnd ==
  [][\A a \in Attempts :
       (att[a].kind = "replay" /\ att[a].conn = "ok" /\ ~att[a].ended /\ att'[a].ended)
       => IF att[a].frames = 0
          THEN /\ att'[a].promise = "rejected"
               /\ att'[a].reason = "No recording found at the requested timestamp"
               /\ streams' = streams
               /\ att'[a].started = 0 /\ att'[a].stopped = 0
          ELSE /\ streams'[att[a].sid] = 0
               /\ att'[a].stopped = 1
               /\ att'[a].errors = att[a].errors]_vars

\* C20 (as claimed): a replay attempt whose device has sent no body byte, and which is
\* rejected by the watchdog or after the socket timeout destroyed its request, is rejected
\* with the watchdog's "No recording found ... within 20s" error and its connection is
\* destroyed, whichever of the two timers fired first.
C20_SilentDeviceWatchdog ==
  [][\A a \in Attempts :
       ( /\ att[a].kind = "replay" /\ att[a].nchunks = 0 /\ att[a].conn \in {"open", "ok"}
         /\ att[a].promise = "pending" /\ att'[a].promise = "rejected"
         /\ \/ att[a].reqDestroyed
            \/ att[a].watchdog = "armed" /\ att'[a].watchdog = "fired" )
       => /\ att'[a].reason = "No recording found: no frames within 20s"
          /\ att'[a].reqDestroyed]_vars

\* C21: a session in the registry has emitted stream-started, has not been stopped, and has
\* seen a body chunk of a 200 response (live) or extracted a frame (replay); it enters the
\* registry in the step that handles its first chunk / extracts its first frame and in no
\* other; and a stopped session never enters the registry again.
C21_RegisteredWhileStarted ==
  /\ [](\A a \in Attempts :
          Registered(a)
          => /\ att[a].started = 1 /\ att[a].stopped = 0 /\ att[a].conn = "ok"
             /\ att[a].kind = "live" => (att[a].firstDataReceived /\ att[a].bytes > 0)
             /\ att[a].kind = "replay" => att[a].frames >= 1)
  /\ [][\A a \in Attempts :
          (~Registered(a) /\ Registered(a)')
          => /\ att[a].stopped = 0 /\ att[a].started = 0 /\ att'[a].started = 1
             /\ att[a].kind = "live" => (att[a].nchunks = 0 /\ att'[a].nchunks = 1)
             /\ att[a].kind = "replay" => (att[a].frames = 0 /\ att'[a].frames >= 1)]_vars

\* a live session that was registered by its first chunk, took a second one and was stopped
C21_Witness ==
  \E a \in Attempts :
    /\ att[a].kind = "live" /\ att[a].started = 1 /\ att[a].stopped = 1
    /\ att[a].nchunks = 2 /\ ~Registered(a)

\* The two timeout failures of a live attempt: the first-data timer and the socket timeout.
TimeoutReasons == { "Timeout waiting for first data from device", "Connection timeout" }

\* C22: when the ten-second first-data timer of a live attempt runs and no body chunk of the
\* 200 response has been seen, the attempt is rejected, with a timeout error unless the
\* request had already reported an error of its own, and no session is registered, then or later.
C22_SilentLiveTimesOut ==
  /\ [][\A a \in Attempts :
          (/\ att[a].kind = "live" /\ att[a].conn = "ok" /\ ~att[a].firstDataReceived
           /\ att[a].firstTimer = "armed" /\ att'[a].firstTimer = "fired")
          => /\ att'[a].promise = "rejected" /\ att'[a].isResolved
             /\ ~att[a].reqErrored => att'[a].reason \in TimeoutReasons
             /\ ~Registered(a)' /\ att'[a].started = 0]_vars
  /\ [](\A a \in Attempts :
          (att[a].kind = "live" /\ att[a].promise = "rejected")
          => (~Registered(a) /\ att[a].started = 0))

\* the first-data timer rejected a live attempt that had a 200 response and no data
C22_Witness ==
  \E a \in Attempts :
    /\ att[a].kind = "live" /\ att[a].conn = "ok" /\ att[a].firstTimer = "fired"
    /\ att[a].nchunks = 0 /\ att[a].promise = "rejected"
    /\ att[a].reason = "Timeout waiting for first data from device"

\* C23 (as claimed): an attempt answered with a non-200 status is never registered, never
\* emits stream-started and writes nothing to any sink, and when it fails it is with the
\* status error, raised after the error body has ended and carrying the decoded text of the
\* whole error body.
C23_NonOkFailsWithStatus ==
  \A a \in Attempts :
    att[a].conn = "err"
    => /\ ~Registered(a) /\ att[a].started = 0 /\ att[a].promise # "resolved"
       /\ \A s \in Sinks : Delivered(a, s) = 0
       /\ att[a].promise = "rejected"
          => /\ att[a].reason = "Device returned status" /\ att[a].ended
             /\ att[a].errorData = toString(att[a].received)

\* C24 (as claimed): for a started session that has not been stopped, the step that reports
\* the end of its upstream removes it from the registry and emits stream-stopped, and the
\* step that reports an upstream error, on the response or on the request, does the same and
\* also emits stream-error.
C24_UpstreamEndOrErrorStops ==
  [][\A a \in Attempts :
       (att[a].started = 1 /\ att[a].stopped = 0)
       => /\ (LiveOnEnd(a) \/ ReplayOnEnd(a))
             => (~Registered(a)' /\ att'[a].stopped = 1)
          /\ (\/ LiveOnResponseError(a) \/ ReplayOnResponseError(a)
              \/ LiveOnRequestError(a) \/ ReplayOnRequestError(a))
             => /\ ~Registered(a)' /\ att'[a].stopped = 1
                /\ att'[a].errors = att[a].errors + 1]_vars

\* ================================================================ netVuHttpGet
\* One call netVuHttpGet(url, silenceTimeout, maxTimeout). Time is a clock of whole ticks;
\* a setTimeout callback runs when the clock has reached its due time, and the clock does not
\* pass a due timer. Bytes are numbers; strings are sequences of code points.
MaxTime == 4
MaxFetchChunks == 2
SilenceTimeouts == { 1, 2 }
MaxTimeouts == { 2, 3 }
\* 'ab', and the two bytes of U+00E9 in separate chunks
FetchMenu == { <<97, 98>>, <<195>>, <<169>> }

\* Buffer.concat(chunks)
RECURSIVE concat(_)
concat(chunks) == IF chunks = <<>> THEN <<>> ELSE Head(chunks) \o concat(Tail(chunks))

\* The closure of the promise executor after transport.get(...) returned the request.
InitFetch(s, m) ==
  [ silenceTimeout |-> s, maxTimeout |-> m,
    now          |-> 0,        \* ticks since the request was started
    conn         |-> "open",   \* open: no response yet; ok: 200 response; err: other status
    chunks       |-> <<>>,
    silenceTimer |-> 0,        \* the handle held in silenceTimer, 0 for null
    maxTimer     |-> 0,        \* the handle held in maxTimer, 0 for null
    handles      |-> 0,        \* silence timers created so far
    armed        |-> {},       \* silence timers not yet run or cleared: [h, due]
    maxDue       |-> -1,       \* due time of the max timer while it is armed
    resolved     |-> FALSE,
    promise      |-> "pending",
    resolves     |-> 0,        \* calls of resolve()
    rejects      |-> 0,        \* calls of reject()
    reason       |-> "",
    data         |-> <<>>,     \* the data field of the resolved value
    errorData    |-> <<>>,
    reqDestroyed |-> FALSE,
    reqErrored   |-> FALSE,
    resErrored   |-> FALSE,
    ended        |-> FALSE,
    arrived      |-> <<>>,     \* history: every body chunk the device delivered
    lastData     |-> -1,       \* history: when the most recent chunk arrived
    via          |-> "none",   \* history: which handler settled the promise
    settledAt    |-> -1 ]      \* history: when the promise was settled

\* if (silenceTimer) clearTimeout(silenceTimer); if (maxTimer) clearTimeout(maxTimer);
clearTimers(f) ==
  [f EXCEPT !.armed = {t \in @ : t.h # f.silenceTimer},
            !.maxDue = IF f.maxTimer # 0 THEN -1 ELSE @]

fetchResolve(f, body) ==
  [f EXCEPT !.resolves = @ + 1,
            !.promise = IF @ = "pending" THEN "resolved" ELSE @,
            !.data = IF f.promise = "pending" THEN body ELSE @]

fetchReject(f, why) ==
  [f EXCEPT !.rejects = @ + 1,
            !.promise = IF @ = "pending" THEN "rejected" ELSE @,
            !.reason = IF f.promise = "pending" THEN why ELSE @]

\* bookkeeping of the history fields: g is f after the handler `how` ran
Settled(f, g, how) ==
  IF f.promise = "pending" /\ g.promise # "pending"
  THEN [g EXCEPT !.via = how, !.settledAt = f.now] ELSE g

\* bug variant: the body is built from the last chunk only
completeRequest_LastChunk(f) ==
  IF f.resolved THEN f
  ELSE fetchResolve([clearTimers([f EXCEPT !.resolved = TRUE]) EXCEPT !.reqDestroyed = TRUE],
                    IF f.chunks = <<>> THEN <<>> ELSE toString(f.chunks[Len(f.chunks)]))

completeRequest(f) ==
  IF f.resolved THEN f
  ELSE fetchResolve([clearTimers([f EXCEPT !.resolved = TRUE]) EXCEPT !.reqDestroyed = TRUE],
                    toString(concat(f.chunks)))

\* the rejecting branches: resolved = true; clear both timers; reject(...)
failRequest(f, why) ==
  IF f.resolved THEN f
  ELSE fetchReject(clearTimers([f EXCEPT !.resolved = TRUE]), why)

\* body events can still be delivered to the response handlers
FetchFlowing(f) == ~f.reqDestroyed /\ ~f.ended /\ ~f.resErrored

\* timers run in the order of their due times
Earliest(f, due) ==
  /\ due <= f.now
  /\ \A t \in f.armed : t.due >= due
  /\ f.maxDue = -1 \/ f.maxDue >= due

FetchUnchanged ==
  UNCHANGED <<att, sinks, streams, totalStreamsCreated, totalStreamsFailed, lastStart,
              crashed, env, pool>>

\* the (res) => { ... } callback: a non-200 status only installs the error-body collectors,
\* a 200 arms the max timer
FetchOnResponse(ok) ==
  /\ fetch.conn = "open" /\ ~fetch.reqDestroyed
  /\ fetch' = IF ok
              THEN [fetch EXCEPT !.conn = "ok", !.maxTimer = 1,
                                 !.maxDue = fetch.now + fetch.maxTimeout]
              ELSE [fetch EXCEPT !.conn = "err"]
  /\ FetchUnchanged

\* non-200: res.on('data', chunk => { errorData += chunk.toString(); })
FetchOnErrorData(chunk) ==
  /\ fetch.conn = "err" /\ FetchFlowing(fetch)
  /\ Len(fetch.arrived) < MaxFetchChunks
  /\ fetch' = [fetch EXCEPT !.errorData = @ \o toString(chunk),
                            !.arrived = Append(@, chunk), !.lastData = fetch.now]
  /\ FetchUnchanged

\* non-200: res.on('end')
FetchOnErrorEnd ==
  /\ fetch.conn = "err" /\ FetchFlowing(fetch)
  /\ fetch' = Settled(fetch, failRequest([fetch EXCEPT !.ended = TRUE], "HTTP status"), "status")
  /\ FetchUnchanged

\* bug variant: the previous silence timer is left running
FetchOnData_NoClear(chunk) ==
  /\ fetch.conn = "ok" /\ FetchFlowing(fetch)
  /\ Len(fetch.arrived) < MaxFetchChunks
  /\ fetch' = [fetch EXCEPT
                 !.chunks = Append(@, chunk),
                 !.armed = @ \cup {[h |-> fetch.handles + 1,
                                    due |-> fetch.now + fetch.silenceTimeout]},
                 !.silenceTimer = fetch.handles + 1,
                 !.handles = @ + 1,
                 !.arrived = Append(@, chunk), !.lastData = fetch.now]
  /\ FetchUnchanged

\* 200: res.on('data'): push the chunk, clear the silence timer, arm a new one
FetchOnData(chunk) ==
  /\ fetch.conn = "ok" /\ FetchFlowing(fetch)
  /\ Len(fetch.arrived) < MaxFetchChunks
  /\ fetch' = [fetch EXCEPT
                 !.chunks = Append(@, chunk),
                 !.armed = {t \in @ : t.h # fetch.silenceTimer}
                             \cup {[h |-> fetch.handles + 1,
                                    due |-> fetch.now + fetch.silenceTimeout]},
                 !.silenceTimer = fetch.handles + 1,
                 !.handles = @ + 1,
                 !.arrived = Append(@, chunk), !.lastData = fetch.now]
  /\ FetchUnchanged

\* the callback of a silence timer: completeRequest(req, res)
FetchSilenceTimer ==
  /\ \E t \in fetch.armed :
       /\ Earliest(fetch, t.due)
       /\ fetch' = Settled(fetch, completeRequest([fetch EXCEPT !.armed = @ \ {t}]), "silence")
  /\ FetchUnchanged

\* the callback of the max timer: if (!resolved) completeRequest(req, res)
FetchMaxTimer ==
  /\ fetch.maxDue # -1 /\ Earliest(fetch, fetch.maxDue)
  /\ fetch' = Settled(fetch, completeRequest([fetch EXCEPT !.maxDue = -1]), "max")
  /\ FetchUnchanged

\* 200: res.on('end'): if (!resolved) completeRequest(req, res)
FetchOnEnd ==
  /\ fetch.conn = "ok" /\ FetchFlowing(fetch)
  /\ fetch' = Settled(fetch, completeRequest([fetch EXCEPT !.ended = TRUE]), "end")
  /\ FetchUnchanged

\* 200: res.on('error'): the connection broke, or the request was destroyed under the response
FetchOnResponseError ==
  /\ fetch.conn = "ok" /\ ~fetch.ended /\ ~fetch.resErrored
  /\ fetch' = Settled(fetch,
                failRequest([fetch EXCEPT !.resErrored = TRUE, !.reqDestroyed = TRUE],
                            "response error"),
                "response error")
  /\ FetchUnchanged

\* req.on('error')
FetchOnRequestError ==
  /\ ~fetch.reqErrored /\ ~fetch.ended
  /\ ~fetch.reqDestroyed \/ fetch.conn = "open"
  /\ fetch' = Settled(fetch,
                failRequest([fetch EXCEPT !.reqErrored = TRUE, !.reqDestroyed = TRUE],
                            "request error"),
                "request error")
  /\ FetchUnchanged

\* req.on('timeout'): the socket idle timeout, where the agent has one
FetchOnRequestTimeout ==
  /\ ~fetch.reqDestroyed /\ ~fetch.ended
  /\ fetch' = Settled(fetch,
                IF fetch.resolved THEN fetch
                ELSE [failRequest(fetch, "Request timeout") EXCEPT !.reqDestroyed = TRUE],
                "request timeout")
  /\ FetchUnchanged

\* a tick of the clock: no timer is due
FetchTick ==
  /\ fetch.now < MaxTime
  /\ \A t \in fetch.armed : t.due > fetch.now
  /\ fetch.maxDue = -1 \/ fetch.maxDue > fetch.now
  /\ fetch' = [fetch EXCEPT !.now = @ + 1]
  /\ FetchUnchanged

InitFetchSpec ==
  /\ att = [a \in Attempts |-> InitAtt]
  /\ sinks = [s \in Sinks |-> InitSink]
  /\ streams = [i \in Ids |-> 0]
  /\ totalStreamsCreated = 0
  /\ totalStreamsFailed = 0
  /\ lastStart = 0
  /\ crashed = FALSE
  /\ env = [attempts |-> 1, faults |-> TRUE]
  /\ fetch \in { InitFetch(s, m) : s \in SilenceTimeouts, m \in MaxTimeouts }
  /\ pool = 0

NextFetch ==
  \/ \E ok \in BOOLEAN : FetchOnResponse(ok)
  \/ \E c \in FetchMenu : FetchOnErrorData(c)
  \/ FetchOnErrorEnd
  \/ \E c \in FetchMenu : FetchOnData(c)
  \/ FetchSilenceTimer
  \/ FetchMaxTimer
  \/ FetchOnEnd
  \/ FetchOnResponseError
  \/ FetchOnRequestError
  \/ FetchOnRequestTimeout
  \/ FetchTick

SpecFetch == InitFetchSpec /\ [][NextFetch]_vars

\* C25: a fetch settles at most once; on a 200 response each of the device's end, a silence
\* timer and the max timer completes a fetch that is still pending, and nothing else does;
\* a completed fetch has destroyed the request and cleared its timers, and its body is the
\* decoded concatenation, in arrival order, of all the chunks that arrived.
C25_CompletesOnce ==
  /\ [](/\ fetch.resolves + fetch.rejects <= 1
        /\ fetch.resolved <=> fetch.promise # "pending"
        /\ fetch.promise = "resolved"
           => /\ fetch.conn = "ok" /\ fetch.reqDestroyed
              /\ fetch.via \in {"end", "silence", "max"}
              /\ fetch.armed = {} /\ fetch.maxDue = -1
              /\ fetch.data = toString(concat(fetch.arrived)))
  /\ [][(/\ fetch.conn = "ok" /\ fetch.promise = "pending"
         /\ FetchOnEnd \/ FetchSilenceTimer \/ FetchMaxTimer)
        => (fetch'.promise = "resolved" /\ fetch'.reqDestroyed)]_vars

\* 'ab', then silence: completed by the silence timer before the max timer was due
C25_Witness ==
  /\ fetch.promise = "resolved" /\ fetch.via = "silence"
  /\ fetch.arrived = << <<97, 98>> >> /\ fetch.data = <<97, 98>>
  /\ fetch.settledAt < fetch.maxTimeout

\* C26 (as claimed): a fetch that is still pending has not outlived maxTimeout, counted from
\* the start of the request.
C26_MaxTimeoutIsCeiling ==
  fetch.promise = "pending" => fetch.now <= fetch.maxTimeout

\* C27 (as claimed): when the max timer runs on a fetch that has not settled, the fetch is
\* rejected with a timeout error.
C27_MaxTimeoutRejects ==
  [][(FetchMaxTimer /\ fetch.promise = "pending")
     => (fetch'.promise = "rejected" /\ fetch'.reason = "Request timeout")]_vars

\* C28 (as claimed): a fetch answered with a non-200 status never resolves, and when it is
\* rejected it is with the status error, after the body has ended, carrying the decoded
\* text of the whole error body.
C28_NonOkRejectsWithBody ==
  fetch.conn = "err"
  => /\ fetch.promise # "resolved" /\ fetch.resolves = 0 /\ fetch.rejects <= 1
     /\ fetch.promise = "rejected"
        => /\ fetch.reason = "HTTP status" /\ fetch.ended
           /\ fetch.errorData = toString(concat(fetch.arrived))

\* C29: a silence timer is armed only once a chunk has arrived, at most one is armed and it
\* is due silenceTimeout after the most recent chunk; so a fetch completed by the silence
\* timer has received a chunk and completes exactly silenceTimeout after the last one.
C29_SilenceAfterData ==
  /\ \A t \in fetch.armed :
       /\ fetch.arrived # <<>> /\ fetch.conn = "ok"
       /\ t.h = fetch.silenceTimer /\ t.due = fetch.lastData + fetch.silenceTimeout
  /\ Cardinality(fetch.armed) <= 1
  /\ fetch.via = "silence"
     => /\ fetch.arrived # <<>>
        /\ fetch.settledAt = fetch.lastData + fetch.silenceTimeout

\* two chunks a tick apart, then the silence timer armed by the second one completed the fetch
C29_Witness ==
  /\ fetch.via = "silence" /\ Len(fetch.arrived) = 2 /\ fetch.handles = 2
  /\ fetch.lastData = 1 /\ fetch.settledAt = 1 + fetch.silenceTimeout

\* ========================================================== runWithConcurrency
\* One call runWithConcurrency(items, 3, fn) as made by the ZIP download route. fn returns a
\* promise; an invocation is in flight from the call of fn until that promise settles.
MaxItems == 5
downloadConcurrency == 3
Workers == 1..MaxItems

\* bug variant: one worker per item
workerCount_PerItem(concurrency, n) == n

\* Math.min(concurrency, items.length)
workerCount(concurrency, n) == IF concurrency < n THEN concurrency ELSE n

\* the closure of the call before Promise.all(Array.from(...)) is evaluated
InitPool(n) ==
  [ n        |-> n,                 \* items.length
    next     |-> 0,
    spawned  |-> FALSE,
    worker   |-> [w \in Workers |-> [state |-> "none", i |-> -1, ok |-> TRUE]],
    inflight |-> {},                \* indexes whose fn promise is pending
    results  |-> {},                \* indexes of results that have been assigned
    all      |-> "pending" ]        \* the Promise.all the caller awaits

\* Promise.all: rejected by the first worker that rejects, resolved once all have returned
promiseAll(p, k) ==
  [p EXCEPT !.all =
     IF @ # "pending" THEN @
     ELSE IF \E w \in 1..k : p.worker[w].state = "failed" THEN "rejected"
     ELSE IF \A w \in 1..k : p.worker[w].state = "done" THEN "resolved"
     ELSE @]

\* worker w at the head of its loop: while (next < items.length) { const i = next++; fn(items[i], i)
loopHead(p, w) ==
  IF p.next < p.n
  THEN [p EXCEPT !.next = @ + 1,
                 !.inflight = @ \cup {p.next},
                 !.worker[w] = [state |-> "awaiting", i |-> p.next, ok |-> TRUE]]
  ELSE [p EXCEPT !.worker[w] = [state |-> "done", i |-> -1, ok |-> TRUE]]

\* Array.from({ length: k }, worker): the workers are called one after the other, each running
\* up to its first await
RECURSIVE spawn(_, _, _)
spawn(p, w, k) == IF w > k THEN p ELSE spawn(loopHead(p, w), w + 1, k)

PoolUnchanged ==
  UNCHANGED <<att, sinks, streams, totalStreamsCreated, totalStreamsFailed, lastStart,
              crashed, env, fetch>>

\* await Promise.all(Array.from({ length: Math.min(concurrency, items.length) }, worker))
PoolSpawn ==
  /\ ~pool.spawned
  /\ LET k == workerCount(downloadConcurrency, pool.n)
     IN pool' = promiseAll(spawn([pool EXCEPT !.spawned = TRUE], 1, k), k)
  /\ PoolUnchanged

\* the promise returned by fn(items[i], i) settles
PoolFnSettles(i, ok) ==
  /\ pool.spawned /\ i \in pool.inflight
  /\ \E w \in Workers :
       /\ pool.worker[w].state = "awaiting" /\ pool.worker[w].i = i
       /\ pool' = [pool EXCEPT !.inflight = @ \ {i},
                               !.worker[w] = [state |-> "resuming", i |-> i, ok |-> ok]]
  /\ PoolUnchanged

\* the worker continues after its await: results[i] = value and back to the loop head, or the
\* rejection ends the worker
PoolResume(w) ==
  /\ pool.spawned /\ pool.worker[w].state = "resuming"
  /\ LET k == Cardinality({v \in Workers : pool.worker[v].state # "none"})
     IN pool' = IF pool.worker[w].ok
                THEN promiseAll(loopHead([pool EXCEPT !.results = @ \cup {pool.worker[w].i}], w), k)
                ELSE promiseAll([pool EXCEPT !.worker[w].state = "failed"], k)
  /\ PoolUnchanged

InitPoolSpec ==
  /\ att = [a \in Attempts |-> InitAtt]
  /\ sinks = [s \in Sinks |-> InitSink]
  /\ streams = [i \in Ids |-> 0]
  /\ totalStreamsCreated = 0
  /\ totalStreamsFailed = 0
  /\ lastStart = 0
  /\ crashed = FALSE
  /\ env = [attempts |-> 1, faults |-> TRUE]
  /\ fetch = 0
  /\ pool \in { InitPool(n) : n \in 0..MaxItems }

NextPool ==
  \/ PoolSpawn
  \/ \E i \in 0..(MaxItems - 1), ok \in BOOLEAN : PoolFnSettles(i, ok)
  \/ \E w \in Workers : PoolResume(w)

SpecPool == InitPoolSpec /\ [][NextPool]_vars

\* C30: at no time are more than three invocations of fn in flight, whatever the number of
\* items and the order and outcome of the completions; every invocation in flight is one
\* that a worker awaits.
C30_AtMostThreeInFlight ==
  /\ Cardinality(pool.inflight) <= 3
  /\ Cardinality(pool.inflight) <= pool.n
  /\ \A i \in pool.inflight :
       \E w \in Workers : pool.worker[w].state = "awaiting" /\ pool.worker[w].i = i

\* five items: the first two have completed, the last three are in flight together
C30_Witness ==
  /\ pool.n = 5 /\ pool.next = 5
  /\ pool.inflight = {2, 3, 4} /\ pool.results = {0, 1}

\* C31 (as claimed): no sink is in the client set of two registered sessions.
C31_SinkInOneSession ==
  \A s \in Sinks :
    Cardinality({a \in Attempts : Registered(a) /\ s \in att[a].clients}) <= 1

\* C32 (as claimed): once an attempt has resolved or rejected, neither its replay watchdog
\* nor its live first-data timer is still armed.
C32_TimersCancelledOnSettle ==
  \A a \in Attempts :
    att[a].promise \in {"resolved", "rejected"}
    => (att[a].watchdog # "armed" /\ att[a].firstTimer # "armed")

\* C33: addClient for an id that is not registered changes nothing (no client set grows, no
\* observer is installed); for a registered id the sink is in that session's client set
\* afterwards with the session's observers installed on it; a sink enters a client set only
\* of a session that is registered; and stats.clients of every session equals the size of
\* its client set in every state.
C33_AttachClient ==
  /\ [](\A a \in Attempts : att[a].statClients = Cardinality(att[a].clients))
  /\ [][/\ \A id \in Ids, s \in Sinks :
             AttachClient(id, s)
             => IF streams[id] = 0
                THEN ~addClientReturns(World, id) /\ att' = att /\ sinks' = sinks
                ELSE /\ addClientReturns(World, id)
                     /\ s \in att'[streams[id]].clients
                     /\ InSeq(streams[id], sinks'[s].obs)
                     /\ Registered(streams[id])'
        /\ \A a \in Attempts, s \in Sinks :
             (s \notin att[a].clients /\ s \in att'[a].clients) => Registered(a)
        /\ \A s \in Sinks, a \in Attempts :
             (~InSeq(a, sinks[s].obs) /\ InSeq(a, sinks'[s].obs)) => Registered(a)]_vars

\* a session with two attached sinks lost one of them to a close and counts one client
C33_Witness ==
  \E a \in Attempts, s \in Sinks, t \in Sinks :
    /\ s # t /\ Registered(a) /\ att[a].clients = {t} /\ att[a].statClients = 1
    /\ InSeq(a, sinks[s].obs) /\ sinks[s].closeEmitted

\* C34 (as claimed): no two creation attempts have the same id.
C34_IdsUnique ==
  \A a \in Attempts, b \in Attempts :
    (a # b /\ att[a].sid # 0 /\ att[b].sid # 0) => att[a].sid # att[b].sid

\* the handlers and timers that belong to attempt a, and the calls that start it
AttemptStep(a) ==
  \/ \E same \in BOOLEAN, bad \in BOOLEAN : startLiveStream(a, same, bad)
  \/ \E same \in BOOLEAN, bad \in BOOLEAN : startReplayStream(a, same, bad)
  \/ \E ok \in BOOLEAN : LiveOnResponse(a, ok) \/ ReplayOnResponse(a, ok)
  \/ \E c \in ErrMenu : LiveOnErrorData(a, c) \/ ReplayOnErrorData(a, c)
  \/ \E c \in LiveMenu : LiveOnData(a, c)
  \/ \E c \in ReplayMenu : ReplayOnData(a, c)
  \/ LiveOnErrorEnd(a) \/ LiveOnEnd(a) \/ LiveOnResponseError(a) \/ LiveFirstDataTimer(a)
  \/ LiveOnRequestError(a) \/ LiveOnRequestTimeout(a)
  \/ ReplayWatchdog(a) \/ ReplayOnErrorEnd(a) \/ ReplayOnEnd(a) \/ ReplayOnResponseError(a)
  \/ ReplayOnRequestError(a) \/ ReplayOnRequestTimeout(a)

\* C35 (as claimed): a step of one attempt (its start, its upstream events, its timers) or
\* the stop of one session leaves every other registered session as it was: still
\* registered, with the same clients, buffer, counters, connection and notifications.
C35_SessionsIsolated ==
  [][\A a \in Attempts, b \in Attempts :
       (a # b /\ Registered(b)
        /\ (AttemptStep(a) \/ (Registered(a) /\ StopStream(att[a].sid))))
       => (att'[b] = att[b] /\ Registered(b)')]_vars

\* C36 (as claimed): once the continuations of all settled attempts have run, 'total created'
\* is the number of attempts that resolved and 'total failed' the number of attempts that
\* passed the capacity gate and were rejected.
C36_CountersMatchOutcomes ==
  (\A a \in Attempts : att[a].cont # "pending")
  => /\ totalStreamsCreated = Cardinality({a \in Attempts : att[a].promise = "resolved"})
     /\ totalStreamsFailed =
          Cardinality({a \in Attempts : /\ att[a].promise = "rejected"
                                        /\ att[a].reason # "Maximum streams limit reached"})

\* C37 (as claimed): an attempt that passed the capacity gate and was rejected holds no open
\* device connection.
C37_FailedAttemptClosesConnection ==
  \A a \in Attempts :
    (att[a].promise = "rejected" /\ att[a].reason # "Maximum streams limit reached")
    => ~ConnOpen(att[a])

\* C38 (as claimed): a stream-error is emitted only for a session that is registered (it has
\* emitted stream-started and has not been stopped), and the same step emits that session's
\* stream-stopped and removes it.
C38_ErrorOnlyForRegistered ==
  [][\A a \in Attempts :
       att'[a].errors > att[a].errors
       => /\ Registered(a) /\ att[a].started = 1 /\ att[a].stopped = 0
          /\ att'[a].stopped = 1 /\ ~Registered(a)']_vars

\* ------------------------------------------------- one live attempt, timers eventually fire
\* One startLiveStream call against a device that may do anything, with a client of the
\* registry attaching, closing and stopping. The 10 s first-data timer runs once it is armed,
\* and the 10 s socket timeout is delivered while the connection stays open.
InitLive == Init /\ env = [attempts |-> 1, faults |-> TRUE]

NextLive ==
  \/ \E a \in Attempts, bad \in BOOLEAN : startLiveStream(a, FALSE, bad)
  \/ \E a \in Attempts, ok \in BOOLEAN : LiveOnResponse(a, ok)
  \/ \E a \in Attempts, c \in ErrMenu : LiveOnErrorData(a, c)
  \/ \E a \in Attempts : LiveOnErrorEnd(a)
  \/ \E a \in Attempts, c \in LiveMenu : LiveOnData(a, c)
  \/ \E a \in Attempts : LiveOnEnd(a)
  \/ \E a \in Attempts : LiveOnResponseError(a)
  \/ \E a \in Attempts : LiveFirstDataTimer(a)
  \/ \E a \in Attempts : LiveOnRequestError(a)
  \/ \E a \in Attempts : LiveOnRequestTimeout(a)
  \/ \E a \in Attempts : LiveContinue(a)
  \/ \E id \in Ids, s \in Sinks : AttachClient(id, s)
  \/ \E s \in Sinks : ClientClose(s)
  \/ \E id \in Ids : StopStream(id)

FairLive ==
  \A a \in Attempts :
    /\ WF_vars(LiveFirstDataTimer(a))
    /\ WF_vars(LiveOnRequestTimeout(a))
    /\ WF_vars(LiveContinue(a))

SpecLive == InitLive /\ [][NextLive]_vars /\ FairLive

C40_StoppedSessionIsQuiet ==
  [][\A a \in Attempts :
       att[a].stopped >= 1
       => /\ att'[a].bytes = att[a].bytes
          /\ att'[a].frames = att[a].frames
          /\ att'[a].statClients = att[a].statClients
          /\ att'[a].stopped = att[a].stopped
          /\ \A s \in Sinks : DataFrom(a, s)' = DataFrom(a, s)]_vars

====
